---- MODULE Spec2Model ----
(***************************************************************************)
(* The order-statistics aggregator of the BiznisWeb MCP server             *)
(* (src/biznisweb_mcp/server.py, BiznisWebMCPServer._order_statistics),    *)
(* behind the tool dispatcher call_tool.                                   *)
(*                                                                         *)
(* One call resolves its date window, pages through the remote order list  *)
(* (one request outstanding at a time, with one fallback request without   *)
(* the newer_from hint when a request fails), keeps the in-window orders   *)
(* in all_orders, and folds them into a report.                            *)
(*                                                                         *)
(* The dispatcher initialises the GraphQL client on the first call, runs   *)
(* the tool named and turns what the tool returns or raises into one text  *)
(* payload. Beside order_statistics the model has the tool get_order and a *)
(* name that is no tool; a second invocation (peer) carries them. Under    *)
(* Spec the host sends one invocation at a time; under Concurrent the two  *)
(* invocations interleave at the awaits of their requests.                 *)
(*                                                                         *)
(* Conventions of the model:                                               *)
(*  - a Python str is a sequence of tokens (a date "2024-03-01T10:00:00"   *)
(*    is <<"2024-03-01", "T", "10:00:00">>; a monetary string "19.99" is   *)
(*    <<"1","9",".","9","9">>), so that split() and the parsers act on it; *)
(*  - a datetime is [day, tod]: the day number within 2024 and the seconds *)
(*    since midnight;                                                      *)
(*  - a monetary number is an integer count of thousandths, so that        *)
(*    round(x, 2) is a real rounding;                                      *)
(*  - a JSON value that may be missing or null carries a tag k.            *)
(***************************************************************************)
EXTENDS Integers, Sequences, FiniteSets, TLC

\* ------------------------------------------------------------------ bounds

\* Most orders the remote serves to one call, over all its pages.
MaxFeed == 3

\* Most pages the remote serves to one call.
MaxPages == 2

\* The safety ceiling on total_fetched. The code compares against 10000
\* (server.py:2026); the model scales the number down so that a call can
\* exceed it within MaxFeed orders. The comparison itself is the code's.
FetchCeiling == 2

\* The cursors the remote hands out are 1..MaxCursor, 0 standing for none.
MaxCursor == 2

\* ------------------------------------------------------- program constants

\* params['limit'] of every page request.
PageLimit == 30

\* timedelta(days=30): the length of the default window.
DefaultDays == 30

\* round(x, 2): ten thousandths make a hundredth.
CentUnit == 10

\* ------------------------------------------------------------------ dates

\* The calendar days the model's strings can name, numbered within 2024.
DayNumber ==
  [s \in {"2024-02-29", "2024-03-01", "2024-03-31", "2024-04-01"} |->
     CASE s = "2024-02-29" -> 60
       [] s = "2024-03-01" -> 61
       [] s = "2024-03-31" -> 91
       [] s = "2024-04-01" -> 92]

\* datetime.strptime(s, '%Y-%m-%d') succeeds.
IsDateString(s) == Len(s) = 1 /\ s[1] \in DOMAIN DayNumber

\* datetime.strptime(s, '%Y-%m-%d'): midnight of the day named.
Strptime(s) == [day |-> DayNumber[s[1]], tod |-> 0]

\* dt.strftime('%Y-%m-%d'): the time of day is dropped.
Strftime(dt) == <<CHOOSE s \in DOMAIN DayNumber : DayNumber[s] = dt.day>>

\* a < b on datetimes.
DtLess(a, b) == a.day < b.day \/ (a.day = b.day /\ a.tod < b.tod)

\* A variant of DtLeq: the comparison is strict.
DtLeqStrict(a, b) == a.day < b.day \/ (a.day = b.day /\ a.tod < b.tod)

\* a <= b on datetimes.
DtLeq(a, b) == a = b \/ DtLess(a, b)

\* sep in s
Contains(s, sep) == \E i \in 1..Len(s) : s[i] = sep

\* s.split(sep)[0]: the part of s before the first sep, all of s without one.
SplitFirst(s, sep) ==
  IF Contains(s, sep)
  THEN SubSeq(s, 1, (CHOOSE i \in 1..Len(s) :
                       s[i] = sep /\ \A j \in 1..(i - 1) : s[j] # sep) - 1)
  ELSE s

\* order['pur_date'].split('T')[0] if 'T' in order['pur_date']
\*   else order['pur_date'].split(' ')[0]
TruncateDate(s) == IF Contains(s, "T") THEN SplitFirst(s, "T") ELSE SplitFirst(s, " ")

\* ----------------------------------------------------------------- orders

\* excluded_statuses
ExcludedStatuses ==
  { "Storno",
    "Platba online - platnos vyprala",
    "Platba online - platba zamietnut",
    "ak na hradu",
    "GoPay - platebni metoda potvrzena" }

PurDate(s)    == [k |-> "str", s |-> s]
StatusName(n) == [k |-> "name", name |-> n]
StatusNull    == [k |-> "null", name |-> ""]
SumNum(n)     == [k |-> "num", n |-> n, s |-> <<>>]
SumStr(s)     == [k |-> "str", n |-> 0, s |-> s]
ItemList(n)   == [k |-> "list", n |-> n]
ItemsNull     == [k |-> "null", n |-> 0]

Order(pd, st, sm, it) == [pur_date |-> pd, status |-> st, sum |-> sm, items |-> it]

\* The records the remote can serve.
\* first day of the window, date-time with 'T'
OrderStart ==
  Order(PurDate(<<"2024-03-01", "T", "10:00:00">>), StatusName("Vybavena"),
        SumNum(19990), ItemList(2))
\* last day of the window, date only, an excluded status
OrderStorno ==
  Order(PurDate(<<"2024-03-31">>), StatusName("Storno"), SumNum(50000), ItemList(3))
\* last day of the window, date-time with a space, the value a numeric string
OrderString ==
  Order(PurDate(<<"2024-03-31", " ", "23:59:59">>), StatusName("Vybavena"),
        SumStr(<<"1", "9", ".", "9", "9">>), ItemList(1))
\* first day of the window, date only; items is null: len() raises after the
\* revenue and the valid count were updated
OrderNoItems ==
  Order(PurDate(<<"2024-03-01">>), StatusName("Nova"), SumNum(10004), ItemsNull)
\* status is null: .get() raises before anything was updated
OrderNoStatus ==
  Order(PurDate(<<"2024-03-31", "T", "08:00:00">>), StatusNull, SumNum(7000), ItemList(1))
\* the day before the window
OrderOlder ==
  Order(PurDate(<<"2024-02-29", "T", "12:00:00">>), StatusName("Vybavena"),
        SumNum(30000), ItemList(1))
\* the day after the window
OrderNewer ==
  Order(PurDate(<<"2024-04-01">>), StatusName("Vybavena"), SumNum(40000), ItemList(1))
\* first day of the window, date-time with a space; the value is a string
\* float() rejects (a decimal comma)
OrderBadValue ==
  Order(PurDate(<<"2024-03-01", " ", "09:30:00">>), StatusName("Nova"),
        SumStr(<<"1", "2", ",", "5", "0">>), ItemList(4))
\* a purchase date strptime rejects
OrderBadDate ==
  Order(PurDate(<<"31.03.2024">>), StatusName("Vybavena"), SumNum(60000), ItemList(1))

\* pur_date is null: the 'in' test of the filter loop raises TypeError
OrderNoDate ==
  Order([k |-> "null", s |-> <<>>], StatusName("Vybavena"), SumNum(80000), ItemList(1))

\* The shops the remote can be: one whose orders differ in their purchase
\* dates, one whose orders all lie in the window and differ in their values
\* and items, one with records that cannot be read, one with a record
\* without a purchase date.
ShopByDate == {OrderStart, OrderStorno, OrderOlder, OrderNewer}
ShopByContent == {OrderStart, OrderStorno, OrderString, OrderNoItems}
ShopMalformed == {OrderStart, OrderStorno, OrderNoStatus, OrderBadDate}
ShopUndated == {OrderStart, OrderStorno, OrderNoDate}
ShopValues == {OrderStart, OrderStorno, OrderString, OrderBadValue}
Shops == {ShopByDate, ShopByContent, ShopMalformed, ShopUndated}

\* ------------------------------------------------- the date filter of a page

\* A variant of DateCheck: the end of the window is exclusive.
DateCheckExclusiveEnd(order, from_date, to_date) ==
  IF order.pur_date.k # "str" \/ ~IsDateString(TruncateDate(order.pur_date.s))
  THEN "skip"
  ELSE LET order_date == Strptime(TruncateDate(order.pur_date.s))
       IN  IF DtLeq(from_date, order_date) /\ DtLess(order_date, to_date) THEN "keep"
           ELSE IF DtLess(order_date, from_date) THEN "stop"
           ELSE "skip"

\* A variant of DateCheck: an order older than the window is passed over and
\* the scan goes on.
DateCheckNoStop(order, from_date, to_date) ==
  IF order.pur_date.k # "str" \/ ~IsDateString(TruncateDate(order.pur_date.s))
  THEN "skip"
  ELSE LET order_date == Strptime(TruncateDate(order.pur_date.s))
       IN  IF DtLeq(from_date, order_date) /\ DtLeq(order_date, to_date) THEN "keep"
           ELSE "skip"

\* A variant of DateCheck: the end of the window is not checked.
DateCheckNoEnd(order, from_date, to_date) ==
  IF order.pur_date.k # "str" \/ ~IsDateString(TruncateDate(order.pur_date.s))
  THEN "skip"
  ELSE LET order_date == Strptime(TruncateDate(order.pur_date.s))
       IN  IF DtLeq(from_date, order_date) THEN "keep" ELSE "stop"

\* A variant of DateCheck: an order newer than the window ends the scan as an
\* older one does.
DateCheckStopsAtNewer(order, from_date, to_date) ==
  CASE order.pur_date.k = "absent" -> "skip"
    [] order.pur_date.k = "null" -> "raise"
    [] OTHER ->
         LET order_date_str == TruncateDate(order.pur_date.s)
         IN  IF ~IsDateString(order_date_str) THEN "skip"
             ELSE LET order_date == Strptime(order_date_str)
                  IN  IF DtLeq(from_date, order_date) /\ DtLeq(order_date, to_date)
                      THEN "keep"
                      ELSE "stop"

\* What the body of the filter loop does with one order (server.py:2003-2020):
\* "keep" (append to filtered_orders), "skip" (too new, or the parse error
\* caught by except (ValueError, KeyError)), "stop" (older than from_date:
\* has_next = False, break), "raise" (pur_date is not a string: the
\* TypeError is not caught by the loop).
DateCheck(order, from_date, to_date) ==
  CASE order.pur_date.k = "absent" -> "skip"
    [] order.pur_date.k = "null" -> "raise"
    [] OTHER ->
         LET order_date_str == TruncateDate(order.pur_date.s)
         IN  IF ~IsDateString(order_date_str) THEN "skip"
             ELSE LET order_date == Strptime(order_date_str)
                  IN  IF DtLeq(from_date, order_date) /\ DtLeq(order_date, to_date)
                      THEN "keep"
                      ELSE IF DtLess(order_date, from_date) THEN "stop"
                      ELSE "skip"

\* A variant of FilterOrders: the first older order ends the paging but not
\* the loop over the page.
RECURSIVE FilterOrdersNoBreak(_, _, _, _, _)
FilterOrdersNoBreak(orders, i, filtered, from_date, to_date) ==
  IF i > Len(orders)
  THEN [filtered |-> filtered, has_next |-> TRUE, raised |-> FALSE]
  ELSE LET c == DateCheck(orders[i], from_date, to_date)
       IN  CASE c = "keep" ->
                  FilterOrdersNoBreak(orders, i + 1, Append(filtered, orders[i]),
                                      from_date, to_date)
             [] c = "skip" ->
                  FilterOrdersNoBreak(orders, i + 1, filtered, from_date, to_date)
             [] c = "stop" ->
                  [FilterOrdersNoBreak(orders, i + 1, filtered, from_date, to_date)
                     EXCEPT !.has_next = FALSE]
             [] OTHER ->
                  [filtered |-> filtered, has_next |-> TRUE, raised |-> TRUE]

\* A variant of FilterOrders: the page that holds the first older order is
\* dropped whole.
RECURSIVE FilterOrdersDropPage(_, _, _, _, _)
FilterOrdersDropPage(orders, i, filtered, from_date, to_date) ==
  IF i > Len(orders)
  THEN [filtered |-> filtered, has_next |-> TRUE, raised |-> FALSE]
  ELSE LET c == DateCheck(orders[i], from_date, to_date)
       IN  CASE c = "keep" ->
                  FilterOrdersDropPage(orders, i + 1, Append(filtered, orders[i]),
                                       from_date, to_date)
             [] c = "skip" ->
                  FilterOrdersDropPage(orders, i + 1, filtered, from_date, to_date)
             [] c = "stop" ->
                  [filtered |-> <<>>, has_next |-> FALSE, raised |-> FALSE]
             [] OTHER ->
                  [filtered |-> filtered, has_next |-> TRUE, raised |-> TRUE]

\* The filter loop over one page, from its i-th order on, filtered being the
\* orders kept so far: [filtered, has_next, raised].
RECURSIVE FilterOrders(_, _, _, _, _)
FilterOrders(orders, i, filtered, from_date, to_date) ==
  IF i > Len(orders)
  THEN [filtered |-> filtered, has_next |-> TRUE, raised |-> FALSE]
  ELSE LET c == DateCheck(orders[i], from_date, to_date)
       IN  CASE c = "keep" ->
                  FilterOrders(orders, i + 1, Append(filtered, orders[i]),
                               from_date, to_date)
             [] c = "skip" -> FilterOrders(orders, i + 1, filtered, from_date, to_date)
             [] c = "stop" ->
                  [filtered |-> filtered, has_next |-> FALSE, raised |-> FALSE]
             [] OTHER ->
                  [filtered |-> filtered, has_next |-> TRUE, raised |-> TRUE]

\* ------------------------------------------------------------ the statistics

\* The digits of a monetary string.
Digits == {"0", "1", "2", "3", "4", "5", "6", "7", "8", "9"}

DigitValue(c) ==
  CASE c = "0" -> 0 [] c = "1" -> 1 [] c = "2" -> 2 [] c = "3" -> 3 [] c = "4" -> 4
    [] c = "5" -> 5 [] c = "6" -> 6 [] c = "7" -> 7 [] c = "8" -> 8 [] c = "9" -> 9

\* float(s) succeeds. The model's monetary strings are plain decimals (digits,
\* at most one point, at most three decimals) or hold a letter.
IsFloatString(s) ==
  /\ \A i \in 1..Len(s) : s[i] \in Digits \cup {"."}
  /\ Cardinality({i \in 1..Len(s) : s[i] = "."}) <= 1
  /\ \E i \in 1..Len(s) : s[i] \in Digits
  /\ Len(s) - Len(SplitFirst(s, ".")) <= 4

\* The number a run of digits writes.
RECURSIVE DigitsValue(_)
DigitsValue(s) ==
  IF s = <<>> THEN 0
  ELSE 10 * DigitsValue(SubSeq(s, 1, Len(s) - 1)) + DigitValue(s[Len(s)])

\* 10^n
RECURSIVE Pow10(_)
Pow10(n) == IF n = 0 THEN 1 ELSE 10 * Pow10(n - 1)

\* A variant of ParseFloat: the decimals are dropped, as int() would.
ParseFloatWhole(s) == DigitsValue(SplitFirst(s, ".")) * 1000

\* float(s), in thousandths.
ParseFloat(s) ==
  LET int  == SplitFirst(s, ".")
      frac == SubSeq(s, Len(int) + 2, Len(s))
  IN  DigitsValue(int) * 1000 + DigitsValue(frac) * Pow10(3 - Len(frac))

\* round(x, 2) of a non-negative x in thousandths: to the nearest hundredth,
\* a tie to the even one.
Round2(x) ==
  LET q == x \div CentUnit
      r == x % CentUnit
  IN  IF 2 * r < CentUnit \/ (2 * r = CentUnit /\ q % 2 = 0)
      THEN CentUnit * q
      ELSE CentUnit * (q + 1)

\* A variant of RoundDiv2: the quotient is cut, not rounded.
RoundDiv2Truncating(n, d) == CentUnit * (n \div (CentUnit * d))

\* round(n / d, 2) for n >= 0 and d > 0.
RoundDiv2(n, d) ==
  LET q == n \div (CentUnit * d)
      r == n % (CentUnit * d)
  IN  IF 2 * r < CentUnit * d \/ (2 * r = CentUnit * d /\ q % 2 = 0)
      THEN CentUnit * q
      ELSE CentUnit * (q + 1)

\* d.get(k, 0)
Get(d, k) == IF k \in DOMAIN d THEN d[k] ELSE 0

\* d[k] = v
Put(d, k, v) == [x \in DOMAIN d \cup {k} |-> IF x = k THEN v ELSE d[x]]

\* The empty dict.
EmptyDict == [x \in {} |-> 0]

\* The accumulators before the statistics loop (server.py:2058-2062).
EmptyStats ==
  [total_revenue |-> 0, total_items |-> 0, status_counts |-> EmptyDict,
   daily_stats |-> EmptyDict, valid_orders_count |-> 0]

\* A variant of IsExcluded: no status is excluded.
IsExcludedNever(order) == FALSE

\* status_name in excluded_statuses (server.py:2067-2070), for a status that
\* is a dict: a missing name reads as ''.
IsExcluded(order) ==
  order.status.k = "name" /\ order.status.name \in ExcludedStatuses

\* A variant of OrderValue: a decimal comma is read as a decimal point.
OrderValueCommaTolerant(order) ==
  CASE order.sum.k = "num" -> order.sum.n
    [] order.sum.k = "str" ->
         ParseFloat([i \in 1..Len(order.sum.s) |->
                       IF order.sum.s[i] = "," THEN "." ELSE order.sum.s[i]])
    [] OTHER -> 0

\* order_sum.get('value', 0), a string converted by float(), 0 when float()
\* raises (server.py:2073-2082).
OrderValue(order) ==
  CASE order.sum.k = "num" -> order.sum.n
    [] order.sum.k = "str" ->
         IF IsFloatString(order.sum.s) THEN ParseFloat(order.sum.s) ELSE 0
    [] OTHER -> 0

\* A variant of ProcessOrder: the day's bucket is made before the status is
\* looked at, so that an excluded order leaves an empty bucket.
ProcessOrderBucketFirst(st, order) ==
  LET order_date == TruncateDate(order.pur_date.s)
      st0 == IF order_date \in DOMAIN st.daily_stats THEN st
             ELSE [st EXCEPT !.daily_stats =
                     Put(@, order_date, [orders |-> 0, revenue |-> 0, items |-> 0])]
  IN  IF order.status.k = "null" THEN st0
      ELSE IF IsExcluded(order) THEN st0
      ELSE IF order.sum.k \in {"null", "nullvalue"} THEN st0
      ELSE
        LET order_value == OrderValue(order)
            st1 == [st0 EXCEPT !.total_revenue = @ + order_value,
                               !.valid_orders_count = @ + 1]
        IN  IF order.items.k = "null" THEN st1
            ELSE
              LET items_count == IF order.items.k = "list" THEN order.items.n ELSE 0
                  status == IF order.status.k = "name" THEN order.status.name
                            ELSE "Unknown"
                  day == st1.daily_stats[order_date]
              IN  [st1 EXCEPT
                     !.total_items = @ + items_count,
                     !.status_counts = Put(@, status, Get(@, status) + 1),
                     !.daily_stats =
                       Put(@, order_date,
                           [orders  |-> day.orders + 1,
                            revenue |-> day.revenue + order_value,
                            items   |-> day.items + items_count])]

\* One pass of the statistics loop (server.py:2065-2108): the order of the
\* updates is the code's, and an exception leaves the updates made before it.
ProcessOrder(st, order) ==
  IF order.status.k = "null" THEN st                    \* None.get: AttributeError
  ELSE IF IsExcluded(order) THEN st                     \* continue
  ELSE IF order.sum.k \in {"null", "nullvalue"} THEN st \* None.get / += None
  ELSE
    LET order_value == OrderValue(order)
        st1 == [st EXCEPT !.total_revenue = @ + order_value,
                          !.valid_orders_count = @ + 1]
    IN  IF order.items.k = "null" THEN st1              \* len(None): TypeError
        ELSE
          LET items_count == IF order.items.k = "list" THEN order.items.n ELSE 0
              status == IF order.status.k = "name" THEN order.status.name ELSE "Unknown"
              order_date == TruncateDate(order.pur_date.s)
              day == IF order_date \in DOMAIN st1.daily_stats
                     THEN st1.daily_stats[order_date]
                     ELSE [orders |-> 0, revenue |-> 0, items |-> 0]
          IN  [st1 EXCEPT
                 !.total_items = @ + items_count,
                 !.status_counts = Put(@, status, Get(@, status) + 1),
                 !.daily_stats =
                   Put(@, order_date,
                       [orders  |-> day.orders + 1,
                        revenue |-> day.revenue + order_value,
                        items   |-> day.items + items_count])]

\* A variant of Statistics: the loop passes over the first buffered order.
RECURSIVE StatisticsSkipFirst(_, _)
StatisticsSkipFirst(orders, n) ==
  IF n <= 1 THEN EmptyStats
  ELSE ProcessOrder(StatisticsSkipFirst(orders, n - 1), orders[n])

\* The statistics loop over the first n buffered orders.
RECURSIVE Statistics(_, _)
Statistics(orders, n) ==
  IF n = 0 THEN EmptyStats ELSE ProcessOrder(Statistics(orders, n - 1), orders[n])

\* A variant of ExcludedCount: the excluded orders counted by their status.
ExcludedCountByStatus(orders, valid) == Len(SelectSeq(orders, IsExcluded))

\* 'excluded_orders': len(all_orders) - valid_orders_count (server.py:2120).
ExcludedCount(orders, valid) == Len(orders) - valid

\* The report returned (server.py:2112-2128).
Report(orders, from_date, to_date) ==
  LET st == Statistics(orders, Len(orders))
  IN  [period |-> [from |-> Strftime(from_date), to |-> Strftime(to_date)],
       summary |->
         [total_orders        |-> Len(orders),
          valid_orders        |-> st.valid_orders_count,
          excluded_orders     |-> ExcludedCount(orders, st.valid_orders_count),
          total_revenue       |-> Round2(st.total_revenue),
          total_items         |-> st.total_items,
          average_order_value |->
            IF st.valid_orders_count > 0
            THEN RoundDiv2(st.total_revenue, st.valid_orders_count)
            ELSE 0],
       status_breakdown  |-> st.status_counts,
       daily_stats       |-> st.daily_stats,
       excluded_statuses |-> ExcludedStatuses]

\* The error object returned by the except clause (server.py:2036-2044).
ErrorResult(from_date, to_date) ==
  [error  |-> "Failed to fetch orders",
   period |-> [from |-> Strftime(from_date), to |-> Strftime(to_date)]]

\* ------------------------------------------------------- the tool dispatcher

\* What a coroutine ends with: a value it returns or an exception it raises,
\* the exception by its str().
Returned(v) == [raised |-> FALSE, value |-> v]
Raised(e) == [raised |-> TRUE, value |-> e]

\* A variant of ExceptClause: the clause catches the failures of the requests
\* only, and the ValueError of strptime leaves the method.
ExceptClauseTransportOnly(e, from_date, to_date) ==
  IF e = "ValueError"
  THEN Raised(<<e>>)
  ELSE Returned(ErrorResult(from_date, to_date))

\* A variant of ExceptClause: the clause catches what the filter loop catches.
ExceptClauseNarrow(e, from_date, to_date) ==
  IF e \in {"ValueError", "KeyError"}
  THEN Returned(ErrorResult(from_date, to_date))
  ELSE Raised(<<e>>)

\* except Exception as e: return {'error': ..., 'period': ...}
\* (server.py:2036-2044): what _order_statistics ends with when the
\* exception e is raised in its try block.
ExceptClause(e, from_date, to_date) == Returned(ErrorResult(from_date, to_date))

\* str() of the exceptions of the model: the ValueError of _init_client, the
\* KeyError of args['order_num'], the TypeError of order['status']['name'] on
\* a null status, a failure of session.execute, and the refusal of the
\* client's transport to connect while it is connected: every request is
\* made inside 'async with self.client as session', which connects the
\* transport of the one shared gql Client on entry and closes it on exit,
\* and the transport raises TransportAlreadyConnected on a second connect.
ConfigError == <<"BIZNISWEB_API_TOKEN not found in environment variables">>
MissingOrderNum == <<"'order_num'">>
NotSubscriptable == <<"'NoneType' object is not subscriptable">>
TransportError == <<"All connection attempts failed">>
AlreadyConnected == <<"Transport is already connected">>

\* json.dumps(result, indent=2, ensure_ascii=...): the text that writes the
\* value. The strings of the model are ASCII, which both settings of
\* ensure_ascii write alike.
JsonDumps(v, ensure_ascii) == [json |-> v]

\* TextContent(type="text", text=...).
TextContent(text) == [type |-> "text", text |-> text]

\* A variant of CallToolReturn: the except clause lets the exception go.
CallToolReraises(outcome) ==
  IF outcome.raised THEN <<>>
  ELSE <<TextContent(JsonDumps(outcome.value, FALSE))>>

\* What call_tool returns for what the tool ended with (server.py:1782-1785):
\* a list of one TextContent, the result or {"error": str(e)}.
CallToolReturn(outcome) ==
  IF outcome.raised
  THEN <<TextContent(JsonDumps([error |-> outcome.value], TRUE))>>
  ELSE <<TextContent(JsonDumps(outcome.value, FALSE))>>

\* A variant of InitClient: the credential is not checked.
InitClientUnchecked(token) == Returned("Client")

\* _init_client() (server.py:1787-1800): raises without the credential,
\* builds the client with it.
InitClient(token) == IF ~token THEN Raised(ConfigError) ELSE Returned("Client")

\* if not self.client: await self._init_client() (server.py:1706-1707).
EnsureClient(cl, token) == IF cl = "None" THEN InitClient(token) ELSE Returned(cl)

\* The tool names of the model: two of the names call_tool dispatches on and
\* one it does not know.
ToolNames == {"order_statistics", "get_order", "no_such_tool"}

\* {"error": f"Unknown tool: {name}"} (server.py:1780).
UnknownTool(name) == [error |-> <<"Unknown tool: ", name>>]

\* What the remote can answer a getOrder request with: a response without
\* the key, a null entity, an order, an order whose status is null, and no
\* response at all (session.execute raises).
OrderReplies ==
  {[k |-> "absent", order |-> OrderStart], [k |-> "null", order |-> OrderStart],
   [k |-> "order", order |-> OrderStart], [k |-> "order", order |-> OrderNoStatus],
   [k |-> "failure", order |-> OrderStart]}

NoReply == [k |-> "none", order |-> OrderStart]

\* A variant of GetOrderResult: a response without the entity raises.
GetOrderResultRaising(order_num, reply) ==
  CASE reply.k = "failure" -> Raised(TransportError)
    [] reply.k \in {"absent", "null"} -> Raised(<<"Order ">> \o order_num \o <<" not found">>)
    [] reply.order.status.k = "null" -> Raised(NotSubscriptable)
    [] OTHER ->
         Returned([order_num |-> order_num,
                   date      |-> reply.order.pur_date.s,
                   status    |-> reply.order.status.name,
                   items     |-> reply.order.items.n])

\* _get_order(args) from the answer to its request on (server.py:1892-1944):
\* the not-found object when the entity is missing or falsy, else the detail
\* of the order, of which the model keeps the fields its order records carry.
GetOrderResult(order_num, reply) ==
  CASE reply.k = "failure" -> Raised(TransportError)
    [] reply.k \in {"absent", "null"} ->
         Returned([error |-> <<"Order ">> \o order_num \o <<" not found">>])
    [] reply.order.status.k = "null" -> Raised(NotSubscriptable)
    [] OTHER ->
         Returned([order_num |-> order_num,
                   date      |-> reply.order.pur_date.s,
                   status    |-> reply.order.status.name,
                   items     |-> reply.order.items.n])

\* ------------------------------------------------------------------ state

VARIABLES
  pc,             \* "idle", "await" (the request with newer_from is out),
                  \* "await_fallback" (the request without it is out), "done"
  args,           \* the arguments of the call: [from_date, to_date]
  from_date,      \* the resolved window start, a datetime
  to_date,        \* the resolved window end, a datetime
  all_orders,     \* the buffer of in-window orders
  has_next,       \* the loop flag
  cursor,         \* the cursor for the next request, 0 for None
  total_fetched,  \* the raw count of orders fetched
  request,        \* the variables of the request sent last
  pages,          \* the pages the remote returned to this call, in order
  result,         \* what the call returned
  shop,           \* the orders the remote holds
  api_token,      \* API_TOKEN is set in the environment
  client,         \* self.client: "None" or "Client"
  session,        \* the invocation inside 'async with self.client': "none",
                  \* "call" (the order_statistics invocation) or "peer"
  payload,        \* what call_tool returned for the call: a list of TextContent
  peer            \* the invocation of another tool: [pc, name, args, reply,
                  \* result (what the tool returned or raised), payload]

vars ==
  <<pc, args, from_date, to_date, all_orders, has_next, cursor, total_fetched,
    request, pages, result, shop, api_token, client, session, payload, peer>>

\* An argument that is not in args, and one that is.
Absent == [given |-> FALSE, s |-> <<>>]
Given(s) == [given |-> TRUE, s |-> s]

\* The values a call can pass as from_date and as to_date.
FromArgs == {Absent, Given(<<"2024-03-01">>), Given(<<"01.03.2024">>)}
ToArgs == {Absent, Given(<<"2024-03-31">>), Given(<<"31.03.2024">>)}

\* datetime.now() at the time of a call: 2024-03-31 at 10:00.
Clock == {[day |-> DayNumber["2024-03-31"], tod |-> 36000]}

NoDate == [day |-> 0, tod |-> 0]
NoRequest == [limit |-> 0, cursor |-> 0, newer_from |-> <<>>]
NoResult == [none |-> TRUE]

\* The value a coroutine returned, NoResult when it raised.
ValueOf(outcome) == IF outcome.raised THEN NoResult ELSE outcome.value

\* The values a call of get_order can pass as order_num.
OrderNumArgs == {Absent, Given(<<"1001">>)}

\* The invocation of another tool before the host dispatches it.
PeerIdle ==
  [pc |-> "idle", name |-> "", args |-> [order_num |-> Absent], reply |-> NoReply,
   result |-> Returned(NoResult), payload |-> <<>>]

IsReport(r) == "summary" \in DOMAIN r
IsError(r) == "error" \in DOMAIN r

\* A variant of PageRequest: every request asks for the first page.
PageRequestFirstAgain(cur, from, fallback) ==
  [limit |-> PageLimit,
   cursor |-> 0,
   newer_from |-> IF fallback THEN <<>> ELSE Strftime(from) \o <<"T", "00:00:00">>]

\* A variant of PageRequest: the fallback request keeps newer_from.
PageRequestSameAgain(cur, from, fallback) ==
  [limit |-> PageLimit,
   cursor |-> cur,
   newer_from |-> Strftime(from) \o <<"T", "00:00:00">>]

\* The variables of a page request (server.py:1967-1982): the cursor only when
\* it is truthy, newer_from unless this is the fallback request.
PageRequest(cur, from, fallback) ==
  [limit |-> PageLimit,
   cursor |-> cur,
   newer_from |-> IF fallback THEN <<>> ELSE Strftime(from) \o <<"T", "00:00:00">>]

\* The pages the remote can answer the k-th successful request with: any
\* orders, with or without a next page; the next cursor names the page.
PagesOfLength(n) == [1..n -> shop]

RemotePages(k, room) ==
  { [data |-> d, hasNextPage |-> h, nextCursor |-> IF h THEN k ELSE 0] :
      d \in UNION {PagesOfLength(n) : n \in 0..room}, h \in BOOLEAN }

\* The server after __init__, before any call: no client, no invocation.
Startup ==
  /\ pc = "idle"
  /\ args = [from_date |-> Absent, to_date |-> Absent]
  /\ from_date = NoDate
  /\ to_date = NoDate
  /\ all_orders = <<>>
  /\ has_next = TRUE
  /\ cursor = 0
  /\ total_fetched = 0
  /\ request = NoRequest
  /\ pages = <<>>
  /\ result = NoResult
  /\ api_token \in BOOLEAN
  /\ client = "None"
  /\ session = "none"
  /\ payload = <<>>
  /\ peer = PeerIdle

Init == Startup /\ shop \in Shops

\* ---------------------------------------------------------------- actions

\* call_tool("order_statistics", args) up to its first await or its return
\* (server.py:1705-1714, 1948-1985): the client is initialised when there is
\* none; the window is resolved from the clock and the arguments, the loop
\* variables are set and the first page request is sent. A date argument
\* strptime rejects raises into the except clause, which returns the error
\* object. When the client is inside another invocation's session, entering
\* it raises for the request and for its fallback, and the except clause
\* returns the error object.
Call(a, now) ==
  LET to0   == now
      from0 == [day |-> now.day - DefaultDays, tod |-> now.tod]
      badFrom == a.from_date.given /\ ~IsDateString(a.from_date.s)
      from1 == IF a.from_date.given /\ ~badFrom THEN Strptime(a.from_date.s) ELSE from0
      badTo == a.to_date.given /\ ~IsDateString(a.to_date.s)
      to1   == IF a.to_date.given /\ ~badTo THEN Strptime(a.to_date.s) ELSE to0
      init  == EnsureClient(client, api_token)
      failed == ExceptClause(IF badFrom \/ badTo THEN "ValueError"
                             ELSE "TransportAlreadyConnected", from1, to1)
  IN  /\ pc = "idle"
      /\ args' = a
      /\ all_orders' = <<>>
      /\ has_next' = TRUE
      /\ cursor' = 0
      /\ total_fetched' = 0
      /\ pages' = <<>>
      /\ UNCHANGED <<shop, api_token, peer>>
      /\ IF init.raised
         THEN /\ pc' = "done"
              /\ from_date' = NoDate
              /\ to_date' = NoDate
              /\ request' = NoRequest
              /\ result' = NoResult
              /\ payload' = CallToolReturn(init)
              /\ UNCHANGED <<client, session>>
         ELSE /\ client' = init.value
              /\ from_date' = from1
              /\ to_date' = to1
              /\ IF badFrom \/ badTo \/ session # "none"
                 THEN /\ pc' = "done"
                      /\ request' = NoRequest
                      /\ result' = ValueOf(failed)
                      /\ payload' = CallToolReturn(failed)
                      /\ UNCHANGED session
                 ELSE /\ pc' = "await"
                      /\ request' = PageRequest(0, from1, FALSE)
                      /\ result' = NoResult
                      /\ payload' = <<>>
                      /\ session' = "call"

\* A variant of CeilingExceeded: the ceiling is never checked.
CeilingNeverExceeded(fetched) == FALSE

\* if total_fetched > 10000: break (server.py:2026), against the scaled ceiling.
CeilingExceeded(fetched) == fetched > FetchCeiling

\* The request that is out returns a page: the rest of the loop body
\* (server.py:1997-2034) and, when the loop ends, the statistics and the
\* report (server.py:2046-2128); otherwise the next request is sent.
LoopBody(page) ==
  LET f       == FilterOrders(page.data, 1, <<>>, from_date, to_date)
      buffer  == all_orders \o f.filtered
      fetched == total_fetched + Len(page.data)
      ceiling == CeilingExceeded(fetched)
      more    == f.has_next /\ page.hasNextPage
  IN  /\ pc \in {"await", "await_fallback"}
      /\ UNCHANGED <<args, from_date, to_date, shop, api_token, client, peer>>
      /\ IF f.raised
         THEN /\ pc' = "done"
              /\ result' = ValueOf(ExceptClause("TypeError", from_date, to_date))
              /\ payload' = CallToolReturn(ExceptClause("TypeError", from_date, to_date))
              /\ session' = "none"
              /\ has_next' = f.has_next
              /\ UNCHANGED <<all_orders, cursor, total_fetched, request>>
         ELSE /\ all_orders' = buffer
              /\ total_fetched' = fetched
              /\ has_next' = IF ceiling THEN f.has_next ELSE more
              /\ cursor' = IF ceiling THEN cursor ELSE page.nextCursor
              /\ IF ~ceiling /\ more
                 THEN /\ pc' = "await"
                      /\ request' = PageRequest(page.nextCursor, from_date, FALSE)
                      /\ result' = NoResult
                      /\ UNCHANGED <<payload, session>>
                 ELSE /\ pc' = "done"
                      /\ request' = request
                      /\ result' = Report(buffer, from_date, to_date)
                      /\ payload' =
                           CallToolReturn(Returned(Report(buffer, from_date, to_date)))
                      /\ session' = "none"

\* The page that came in is added to the log of the call's pages.
RecvPage(page) == LoopBody(page) /\ pages' = Append(pages, page)

\* A variant of RecvFailure: the fallback request is sent beside the request
\* with newer_from, which stays out.
RecvFailureBeside ==
  /\ pc = "await"
  /\ request.newer_from # <<>>
  /\ pc' = "await"
  /\ request' = PageRequest(cursor, from_date, TRUE)
  /\ UNCHANGED <<args, from_date, to_date, all_orders, has_next, cursor,
                 total_fetched, pages, result, shop, api_token, client, session,
                 payload, peer>>

\* The request with newer_from fails: the fallback request, without the date
\* filter, is sent for the same page (server.py:1987-1995).
RecvFailure ==
  /\ pc = "await"
  /\ pc' = "await_fallback"
  /\ request' = PageRequest(cursor, from_date, TRUE)
  /\ UNCHANGED <<args, from_date, to_date, all_orders, has_next, cursor,
                 total_fetched, pages, result, shop, api_token, client, session,
                 payload, peer>>

\* The fallback request fails too: the exception reaches the except clause
\* (server.py:2036-2044), which returns the error object.
RecvFallbackFailure ==
  /\ pc = "await_fallback"
  /\ pc' = "done"
  /\ result' = ValueOf(ExceptClause("TransportError", from_date, to_date))
  /\ payload' = CallToolReturn(ExceptClause("TransportError", from_date, to_date))
  /\ session' = "none"
  /\ UNCHANGED <<args, from_date, to_date, all_orders, has_next, cursor,
                 total_fetched, request, pages, shop, api_token, client, peer>>

\* The result has gone to the caller: the locals of the call are dropped and
\* the server takes the next call.
Return ==
  /\ pc = "done"
  /\ pc' = "idle"
  /\ args' = [from_date |-> Absent, to_date |-> Absent]
  /\ from_date' = NoDate
  /\ to_date' = NoDate
  /\ all_orders' = <<>>
  /\ has_next' = TRUE
  /\ cursor' = 0
  /\ total_fetched' = 0
  /\ request' = NoRequest
  /\ pages' = <<>>
  /\ result' = NoResult
  /\ payload' = <<>>
  /\ UNCHANGED <<shop, api_token, client, session, peer>>

\* The locals of the order_statistics invocation, which the invocation of
\* another tool leaves alone.
callVars ==
  <<pc, args, from_date, to_date, all_orders, has_next, cursor, total_fetched,
    request, pages, result, payload>>

\* call_tool(n, a) for a tool other than order_statistics, up to its first
\* await or its return (server.py:1705-1785, 1887-1892): the client is
\* initialised when there is none; a name that is no tool returns the
\* unknown-tool object; get_order reads args['order_num'], enters the
\* client's session and sends its request.
PeerCall(n, a) ==
  LET init == EnsureClient(client, api_token)
      done(outcome) ==
        [pc |-> "done", name |-> n, args |-> a, reply |-> NoReply,
         result |-> outcome, payload |-> CallToolReturn(outcome)]
  IN  /\ peer.pc = "idle"
      /\ UNCHANGED <<callVars, shop, api_token>>
      /\ IF init.raised
         THEN /\ peer' = done(init)
              /\ UNCHANGED <<client, session>>
         ELSE /\ client' = init.value
              /\ IF n # "get_order"
                 THEN /\ peer' = done(Returned(UnknownTool(n)))
                      /\ UNCHANGED session
                 ELSE IF ~a.order_num.given
                 THEN /\ peer' = done(Raised(MissingOrderNum))
                      /\ UNCHANGED session
                 ELSE IF session # "none"
                 THEN /\ peer' = done(Raised(AlreadyConnected))
                      /\ UNCHANGED session
                 ELSE /\ peer' = [pc |-> "await", name |-> n, args |-> a,
                                  reply |-> NoReply, result |-> Returned(NoResult),
                                  payload |-> <<>>]
                      /\ session' = "peer"

\* The getOrder request returns or fails: the rest of _get_order and the
\* return of call_tool (server.py:1892-1944, 1782-1785).
PeerReply(reply) ==
  /\ peer.pc = "await"
  /\ peer' = [peer EXCEPT
                !.pc = "done",
                !.reply = reply,
                !.result = GetOrderResult(peer.args.order_num.s, reply),
                !.payload = CallToolReturn(GetOrderResult(peer.args.order_num.s, reply))]
  /\ session' = "none"
  /\ UNCHANGED <<callVars, shop, api_token, client>>

\* The payload has gone to the host: the invocation is over.
PeerReturn ==
  /\ peer.pc = "done"
  /\ peer' = PeerIdle
  /\ UNCHANGED <<callVars, shop, api_token, client, session>>

\* No invocation is running: the host that sends one invocation at a time
\* sends the next one.
Quiet == pc = "idle" /\ peer.pc = "idle"

Next ==
  \/ /\ Quiet
     /\ \E f \in FromArgs, t \in ToArgs, now \in Clock :
          Call([from_date |-> f, to_date |-> t], now)
  \/ /\ Len(pages) < MaxPages
     /\ \E page \in RemotePages(Len(pages) + 1, MaxFeed - total_fetched) :
          RecvPage(page)
  \/ RecvFailure
  \/ RecvFallbackFailure
  \/ Return
  \/ /\ Quiet
     /\ \E n \in ToolNames \ {"order_statistics"}, o \in OrderNumArgs :
          PeerCall(n, [order_num |-> o])
  \/ \E reply \in OrderReplies : PeerReply(reply)
  \/ PeerReturn

Spec == Init /\ [][Next]_vars

\* The host that dispatches invocations as they come: an invocation starts
\* while the other one is at the await of its request. The remote is the
\* shop with the fewest records and order_statistics is called with one
\* explicit window, the interleavings being what this specification is for.
ConcurrentInit == Init /\ shop = ShopUndated

ConcurrentNext ==
  \/ \E now \in Clock :
       Call([from_date |-> Given(<<"2024-03-01">>), to_date |-> Given(<<"2024-03-31">>)],
            now)
  \/ /\ Len(pages) < MaxPages
     /\ \E page \in RemotePages(Len(pages) + 1, MaxFeed - total_fetched) :
          RecvPage(page)
  \/ RecvFailure
  \/ RecvFallbackFailure
  \/ Return
  \/ \E n \in ToolNames \ {"order_statistics"}, o \in OrderNumArgs :
       PeerCall(n, [order_num |-> o])
  \/ \E reply \in OrderReplies : PeerReply(reply)
  \/ PeerReturn

Concurrent == ConcurrentInit /\ [][ConcurrentNext]_vars

\* The shop whose orders differ in their dates only, asked for the window
\* 2024-03-01..2024-03-31: the date filter of the pages.
WindowArgs == [from_date |-> Given(<<"2024-03-01">>), to_date |-> Given(<<"2024-03-31">>)]

DatedInit == Startup /\ shop = ShopByDate

WindowNext ==
  \/ \E now \in Clock : Call(WindowArgs, now)
  \/ /\ Len(pages) < MaxPages
     /\ \E page \in RemotePages(Len(pages) + 1, MaxFeed - total_fetched) :
          RecvPage(page)
  \/ RecvFailure
  \/ RecvFallbackFailure
  \/ Return

Dated == DatedInit /\ [][WindowNext]_vars

\* The shop whose orders differ in their monetary values, asked for the same
\* window: the statistics loop over records every step of it can read.
RecordsInit == Startup /\ shop = ShopValues

Records == RecordsInit /\ [][WindowNext]_vars

\* The remote that pages without end. A page carries any next cursor, none
\* (0) included, whether or not it reports a next page, and there is no last
\* page; pages keeps the last page only, so that a remote that repeats itself
\* brings the call back to a state it was in. Every request that is out is
\* answered or fails in the end.
RecvLast(page) == LoopBody(page) /\ pages' = <<page>>

Answered ==
  \/ \E k \in 0..MaxCursor :
       \E page \in RemotePages(k, MaxFeed - total_fetched) : RecvLast(page)
  \/ RecvFailure
  \/ RecvFallbackFailure

PagingNext ==
  \/ \E t \in ToArgs, now \in Clock :
       Call([from_date |-> Given(<<"2024-03-01">>), to_date |-> t], now)
  \/ Answered
  \/ Return

PagingInit == Startup /\ shop = {OrderStart, OrderOlder}

Paging == PagingInit /\ [][PagingNext]_vars /\ WF_vars(Answered)

\* ---------------------------------------------------------------------------
\* C21: whatever the remote does (empty pages, pages that always report a next
\* page, cursors repeated or missing), a call of order_statistics that has a
\* request out issues finitely many requests and returns in the end.
C21_AsStated == (pc \in {"await", "await_fallback"}) ~> (pc = "done")

\* ------------------------------------------- the vocabulary of the properties

\* The orders of the pages fetched, in the order received.
RECURSIVE Flatten(_)
Flatten(ps) == IF ps = <<>> THEN <<>> ELSE ps[1].data \o Flatten(Tail(ps))

Feed == Flatten(pages)

\* The order has a purchase date, and the day it names once truncated.
HasDay(o) == o.pur_date.k = "str" /\ IsDateString(TruncateDate(o.pur_date.s))
DayOf(o) == DayNumber[TruncateDate(o.pur_date.s)[1]]

\* The window as calendar days: the period the report echoes.
StartDay == from_date.day
EndDay == to_date.day

InWindow(o) == HasDay(o) /\ StartDay <= DayOf(o) /\ DayOf(o) <= EndDay
IsOlder(o) == HasDay(o) /\ DayOf(o) < StartDay
IsNewer(o) == HasDay(o) /\ DayOf(o) > EndDay

\* The orders of the feed that come before its first order older than the
\* window start: all of the feed when it has none.
Scanned ==
  IF \E i \in 1..Len(Feed) : IsOlder(Feed[i])
  THEN SubSeq(Feed, 1, (CHOOSE i \in 1..Len(Feed) :
                          IsOlder(Feed[i]) /\ \A j \in 1..(i - 1) : ~IsOlder(Feed[j])) - 1)
  ELSE Feed

\* The status display name is in the exclusion set.
HasExcludedStatus(o) == o.status.k = "name" /\ o.status.name \in ExcludedStatuses

\* The status and the sum of the record can be read: the statistics loop
\* reaches the revenue update for it unless its status is excluded.
Readable(o) == o.status.k # "null" /\ o.sum.k \notin {"null", "nullvalue"}

\* The numeric strings of the model's orders, with the numbers they write.
NumericStrings == [s \in {<<"1", "9", ".", "9", "9">>} |-> 19990]

\* The monetary value of an order, in thousandths.
MonetaryValue(o) ==
  CASE o.sum.k = "num" -> o.sum.n
    [] o.sum.k = "str" /\ o.sum.s \in DOMAIN NumericStrings -> NumericStrings[o.sum.s]
    [] OTHER -> 0

\* The sum of the monetary values of the orders of s.
RECURSIVE SumValues(_)
SumValues(s) == IF s = <<>> THEN 0 ELSE MonetaryValue(s[1]) + SumValues(Tail(s))

\* The nearest hundredth to the non-negative rational n / d is x.
IsNearestCent(x, n, d) ==
  /\ x % CentUnit = 0
  /\ 2 * (x * d - n) <= CentUnit * d
  /\ 2 * (n - x * d) <= CentUnit * d

\* The call has returned a report.
Reported == pc = "done" /\ IsReport(result)

\* ------------------------------------------------------------- properties

\* C1: every report satisfies valid_orders + excluded_orders = total_orders,
\* both counts being natural numbers, whatever the pages and the records are,
\* records whose processing fails included.
C1_CountsAddUp ==
  Reported =>
    /\ result.summary.valid_orders \in Nat
    /\ result.summary.excluded_orders \in Nat
    /\ result.summary.valid_orders + result.summary.excluded_orders
         = result.summary.total_orders

\* A report over a valid order, an excluded order and a record whose
\* processing fails.
C1_Witness ==
  /\ Reported
  /\ all_orders = <<OrderStart, OrderStorno, OrderNoStatus>>
  /\ result.summary.valid_orders = 1
  /\ result.summary.excluded_orders = 2

\* C2 as stated, for the calls that pass from_date: total_orders is the number
\* of orders of the fetched pages whose truncated purchase date lies in the
\* window.
C2_AsStated ==
  (Reported /\ args.from_date.given) =>
    result.summary.total_orders = Len(SelectSeq(Feed, InWindow))

\* C2, amended: for a call that passes from_date, total_orders is the number
\* of orders whose truncated purchase date lies in the window among the
\* fetched orders that come before the first order older than the window
\* start.
C2_TotalOrders ==
  (Reported /\ args.from_date.given) =>
    result.summary.total_orders = Len(SelectSeq(Scanned, InWindow))

\* A report over a feed that is not sorted: an in-window order comes after an
\* older one and is left out, the in-window order before it is counted.
C2_Witness ==
  /\ Reported
  /\ args.from_date.given
  /\ Feed = <<OrderStorno, OrderOlder, OrderStart>>
  /\ result.summary.total_orders = 1

\* C3: the orders whose status display name is in the exclusion set change
\* neither total_revenue, total_items, status_breakdown nor daily_stats: the
\* report is the one the buffer without them yields, and no excluded status
\* is a key of status_breakdown.
C3_ExcludedNeverCounted ==
  Reported =>
    LET others == SelectSeq(all_orders, LAMBDA o : ~HasExcludedStatus(o))
        r == Report(others, from_date, to_date)
    IN  /\ result.summary.total_revenue = r.summary.total_revenue
        /\ result.summary.total_items = r.summary.total_items
        /\ result.status_breakdown = r.status_breakdown
        /\ result.daily_stats = r.daily_stats
        /\ DOMAIN result.status_breakdown \cap ExcludedStatuses = {}

\* A report over an excluded order of value 50.00 with 3 items, beside a valid
\* order.
C3_Witness ==
  /\ Reported
  /\ all_orders = <<OrderStorno, OrderStart>>
  /\ result.summary.total_revenue = 19990
  /\ result.summary.total_items = 2

\* C4 as stated, for the calls that pass from_date: the revenue is the sum of
\* the monetary values of the fetched orders whose status is not in the
\* exclusion set and whose purchase date lies in the window. The records
\* whose status or sum cannot be read are left aside, in the claim's favour.
C4_AsStated ==
  (Reported /\ args.from_date.given) =>
    result.summary.total_revenue =
      Round2(SumValues(SelectSeq(Feed,
               LAMBDA o : InWindow(o) /\ ~HasExcludedStatus(o) /\ Readable(o))))

\* C4, amended: for a call that passes from_date, the revenue is the sum of the
\* monetary values of exactly those orders, among the fetched orders that come
\* before the first order older than the window start, whose purchase date
\* lies in the window, whose status is not in the exclusion set, and whose
\* status and sum can be read.
C4_Revenue ==
  (Reported /\ args.from_date.given) =>
    result.summary.total_revenue =
      Round2(SumValues(SelectSeq(Scanned,
               LAMBDA o : InWindow(o) /\ ~HasExcludedStatus(o) /\ Readable(o))))

\* A report whose revenue leaves out an excluded order and takes in a numeric
\* string and the value of a record whose items cannot be read.
C4_Witness ==
  /\ Reported
  /\ args.from_date.given
  /\ all_orders = <<OrderString, OrderStorno, OrderNoItems>>
  /\ result.summary.total_revenue = 29990

\* C5: once a fetched page holds an order dated before the window start, no
\* further page request is issued (that page is the last one, whatever its
\* hasNextPage says, and no request is outstanding), and neither that order
\* nor any order after it is in the buffer.
C5_StopsAtOlder ==
  (\E i \in 1..Len(Feed) : IsOlder(Feed[i])) =>
    /\ pc = "done"
    /\ \A k \in 1..(Len(pages) - 1) :
         \A i \in 1..Len(pages[k].data) : ~IsOlder(pages[k].data[i])
    /\ \A i \in 1..Len(all_orders) : ~IsOlder(all_orders[i])
    /\ Len(all_orders) <= Len(SelectSeq(Scanned, InWindow))

\* A feed sorted by purchase date descending whose second page holds an order
\* of the first day of the window, an older order, and reports a next page.
C5_Witness ==
  /\ Reported
  /\ Len(pages) = 2
  /\ pages[1].data = <<OrderStorno>>
  /\ pages[2].data = <<OrderStart, OrderOlder>>
  /\ pages[2].hasNextPage
  /\ all_orders = <<OrderStorno, OrderStart>>

\* C6: once the raw count of fetched orders exceeds the ceiling no further
\* page request is issued: the call has returned, and returned a report, not
\* an error, which counts every fetched order when all of them lie in the
\* window of a call that passes from_date. And a call returns with the loop
\* flag still set only because the ceiling was exceeded.
C6_CeilingStops ==
  /\ total_fetched > FetchCeiling =>
       /\ Reported
       /\ (args.from_date.given /\ \A i \in 1..Len(Feed) : InWindow(Feed[i])) =>
            result.summary.total_orders = total_fetched
  /\ (Reported /\ has_next) => total_fetched > FetchCeiling

\* Two full in-window pages that both report a next page: the second takes
\* the count over the ceiling and the call returns a report there.
C6_Witness ==
  /\ Reported
  /\ Len(pages) = 2
  /\ pages[1].hasNextPage /\ pages[2].hasNextPage
  /\ total_fetched = FetchCeiling + 1
  /\ args.from_date.given
  /\ \A i \in 1..Len(Feed) : InWindow(Feed[i])
  /\ result.summary.total_orders = total_fetched

\* The orders of the buffer that the statistics loop counts as valid.
Valid == SelectSeq(all_orders, LAMBDA o : ~HasExcludedStatus(o) /\ Readable(o))

\* C7 as stated: average_order_value times valid_orders is total_revenue when
\* valid_orders > 0, and average_order_value is 0 when valid_orders = 0.
C7_AsStated ==
  Reported =>
    IF result.summary.valid_orders > 0
    THEN result.summary.average_order_value * result.summary.valid_orders
           = result.summary.total_revenue
    ELSE result.summary.average_order_value = 0

\* C7, amended: when valid_orders > 0, average_order_value is the accumulated
\* revenue (the sum of the values of the valid orders, before any rounding)
\* divided by valid_orders and rounded to 2 decimal places; it is 0 when
\* valid_orders = 0.
C7_Average ==
  Reported =>
    IF result.summary.valid_orders > 0
    THEN IsNearestCent(result.summary.average_order_value,
                       SumValues(Valid), result.summary.valid_orders)
    ELSE result.summary.average_order_value = 0

\* A report over two valid orders of 19.99 and 10.004: the average is 15.00,
\* the revenue 29.99.
C7_Witness ==
  /\ Reported
  /\ all_orders = <<OrderStart, OrderNoItems>>
  /\ result.summary.valid_orders = 2
  /\ result.summary.total_revenue = 29990
  /\ result.summary.average_order_value = 15000

\* C8: a report over pages that hold no order of the window has total_orders,
\* valid_orders, excluded_orders, total_revenue, total_items and
\* average_order_value 0, and an empty status_breakdown and daily_stats.
C8_EmptyWindow ==
  (Reported /\ \A i \in 1..Len(Feed) : ~InWindow(Feed[i])) =>
    /\ result.summary =
         [total_orders |-> 0, valid_orders |-> 0, excluded_orders |-> 0,
          total_revenue |-> 0, total_items |-> 0, average_order_value |-> 0]
    /\ DOMAIN result.status_breakdown = {}
    /\ DOMAIN result.daily_stats = {}

\* A report over two pages of orders, none of them of the window.
C8_Witness ==
  /\ Reported
  /\ Len(pages) = 2
  /\ Feed = <<OrderNewer, OrderNewer, OrderOlder>>

\* The order with its monetary value given as the number its string writes.
AsNumber(o) ==
  IF o.sum.k = "str" /\ o.sum.s \in DOMAIN NumericStrings
  THEN [o EXCEPT !.sum = SumNum(NumericStrings[o.sum.s])]
  ELSE o

\* C9: the report is the one returned for the feed in which every numeric
\* string is replaced by the number it writes (the date filter does not read
\* the value, so that feed leaves the same orders in the buffer).
C9_StringAsNumber ==
  Reported =>
    result = Report([i \in 1..Len(all_orders) |-> AsNumber(all_orders[i])],
                    from_date, to_date)

\* A report over an order worth "19.99" and an order worth 19.99.
C9_Witness ==
  /\ Reported
  /\ all_orders = <<OrderString, OrderStart>>
  /\ result.summary.total_revenue = 39980
  /\ result.daily_stats[<<"2024-03-31">>].revenue = 19990

\* How many orders of s are of day d.
OfDay(s, d) == Len(SelectSeq(s, LAMBDA o : HasDay(o) /\ DayOf(o) = d))

\* C10: with from_date and to_date both passed, every order of the first and
\* of the last day of the window (among the fetched orders before the first
\* older one) is in the buffer and counted, and no order of a day before
\* from_date or after to_date is.
C10_InclusiveEnds ==
  (Reported /\ args.from_date.given /\ args.to_date.given) =>
    /\ OfDay(all_orders, StartDay) = OfDay(Scanned, StartDay)
    /\ OfDay(all_orders, EndDay) = OfDay(Scanned, EndDay)
    /\ \A i \in 1..Len(all_orders) : InWindow(all_orders[i])
    /\ result.summary.total_orders = Len(all_orders)

\* A report for from_date 2024-03-01 and to_date 2024-03-31 over an order of
\* 2024-04-01, one of 2024-03-31 and one of 2024-03-01.
C10_Witness ==
  /\ Reported
  /\ args.from_date.given /\ args.to_date.given
  /\ Feed = <<OrderNewer, OrderStorno, OrderStart>>
  /\ all_orders = <<OrderStorno, OrderStart>>
  /\ result.summary.total_orders = 2

\* C11: a report of a call without from_date and to_date counts in
\* total_orders every fetched order purchased on the calendar day 30 days
\* before the call and every fetched order purchased on the day of the call
\* (of the feed up to its first order of an earlier day).
C11_AsStated ==
  (Reported /\ ~args.from_date.given /\ ~args.to_date.given) =>
    /\ StartDay = EndDay - DefaultDays
    /\ OfDay(all_orders, StartDay) = OfDay(Scanned, StartDay)
    /\ OfDay(all_orders, EndDay) = OfDay(Scanned, EndDay)

\* One text payload whose text writes the value v.
IsPayloadOf(p, v) == Len(p) = 1 /\ p[1].type = "text" /\ p[1].text.json = v

\* One text payload whose text writes an object {error: message}.
IsErrorPayload(p) ==
  Len(p) = 1 /\ p[1].type = "text" /\ DOMAIN p[1].text.json = {"error"}

\* C12: an invocation that has ended has handed the host exactly one text
\* payload, which writes what the tool returned or is an object
\* {error: message}; that holds for order_statistics, for get_order and for a
\* name that is no tool, whatever the arguments and the remote did.
C12_OnePayload ==
  /\ pc = "done" =>
       \/ result # NoResult /\ IsPayloadOf(payload, result)
       \/ IsErrorPayload(payload)
  /\ peer.pc = "done" =>
       \/ ~peer.result.raised /\ IsPayloadOf(peer.payload, peer.result.value)
       \/ IsErrorPayload(peer.payload)

\* get_order raised on the failure of its request, and the host got the error
\* object of the dispatcher.
C12_Witness ==
  /\ peer.pc = "done"
  /\ peer.name = "get_order"
  /\ peer.reply.k = "failure"
  /\ peer.result.raised
  /\ peer.payload = <<TextContent([json |-> [error |-> TransportError]])>>

\* The payload of the configuration error.
ConfigErrorPayload == <<TextContent([json |-> [error |-> ConfigError]])>>

\* C13: without the API credential the server starts, and every tool call
\* ends with the configuration error as its payload; no request is ever sent
\* (none is out, none was answered, the client's session is never entered),
\* and the client stays uninitialised.
C13_ConfigError ==
  ~api_token =>
    /\ client = "None"
    /\ session = "none"
    /\ pc \in {"idle", "done"}
    /\ peer.pc \in {"idle", "done"}
    /\ request = NoRequest /\ pages = <<>>
    /\ peer.reply = NoReply
    /\ pc = "done" => payload = ConfigErrorPayload
    /\ peer.pc = "done" => peer.payload = ConfigErrorPayload

\* A call of order_statistics with a valid window, made without the
\* credential, has ended with the configuration error.
C13_Witness ==
  /\ ~api_token
  /\ pc = "done"
  /\ args.from_date = Given(<<"2024-03-01">>)
  /\ payload = ConfigErrorPayload
  /\ client = "None"

\* A step in which the request of order_statistics that is out fails: the
\* call leaves its await and no page has come in.
CallRequestFails == pc \in {"await", "await_fallback"} /\ pc' # pc /\ pages' = pages

\* A step in which the request of get_order fails.
PeerRequestFails == peer.pc = "await" /\ peer'.reply.k = "failure"

\* C14 as stated: a step in which a request fails ends the call with a
\* structured error, and sends no further request for it.
C14_AsStated ==
  [][/\ CallRequestFails =>
          pc' = "done" /\ IsError(result') /\ request' = request
     /\ PeerRequestFails =>
          peer'.pc = "done" /\ IsErrorPayload(peer'.payload)]_vars

\* C14: a failure of the request of get_order, and a failure of the fallback
\* request of order_statistics, end the call with a structured error and
\* leave no request out; a failure of a page request of order_statistics that
\* carries newer_from sends one more request, for the same page and without
\* newer_from, and returns nothing yet.
C14_OneFallback ==
  [][/\ (CallRequestFails /\ pc = "await_fallback") =>
          /\ pc' = "done" /\ IsError(result') /\ IsPayloadOf(payload', result')
          /\ request' = request /\ session' = "none"
     /\ (CallRequestFails /\ pc = "await") =>
          /\ pc' = "await_fallback" /\ result' = NoResult /\ payload' = <<>>
          /\ request.newer_from # <<>>
          /\ request' = [request EXCEPT !.newer_from = <<>>]
     /\ PeerRequestFails =>
          /\ peer'.pc = "done" /\ IsErrorPayload(peer'.payload)
          /\ session' = "none"]_vars

\* The second page was asked for twice, with newer_from and without, both
\* requests failed, and the call ended with the error object.
C14_Witness ==
  /\ pc = "done"
  /\ IsError(result)
  /\ Len(pages) = 1
  /\ pages[1].data = <<OrderStart>>
  /\ request = [limit |-> PageLimit, cursor |-> 1, newer_from |-> <<>>]

\* The keys of a report and of an error object.
ReportKeys == {"period", "summary", "status_breakdown", "daily_stats", "excluded_statuses"}
ErrorKeys == {"error", "period"}

\* C15: a call of order_statistics that got past the dispatcher's client
\* check returns, and returns one of two shapes: a report (period, summary,
\* status_breakdown, daily_stats and the exclusion list) or an error object
\* of exactly error and the resolved period, which carries no statistics
\* whatever pages were fetched before the failure.
C15_TwoShapes ==
  (pc = "done" /\ client # "None") =>
    /\ result # NoResult
    /\ \/ DOMAIN result = ReportKeys
       \/ /\ DOMAIN result = ErrorKeys
          /\ result.period = [from |-> Strftime(from_date), to |-> Strftime(to_date)]
    /\ IsPayloadOf(payload, result)

\* An error object returned after a page with two in-window orders had been
\* fetched and buffered: the second page holds a record without a date.
C15_Witness ==
  /\ pc = "done"
  /\ DOMAIN result = ErrorKeys
  /\ all_orders = <<OrderStart, OrderStorno>>
  /\ Len(pages) = 2
  /\ pages[2].data = <<OrderNoDate>>

\* C16: a page that comes in never ends order_statistics with the error
\* object, whatever records it holds: a record that cannot be read is passed
\* over and the call goes on to the next request or to its report.
C16_AsStated ==
  [][(pc \in {"await", "await_fallback"} /\ pages' # pages) =>
       /\ ~IsError(result')
       /\ pc' = "done" => IsReport(result')]_vars

\* The not-found object of get_order for the order number its call passed.
NotFoundObject == [error |-> <<"Order ">> \o peer.args.order_num.s \o <<" not found">>]

C18_AsStated ==
  /\ (peer.pc = "done" /\ peer.name = "get_order" /\ peer.args.order_num.given
        /\ api_token) =>
       /\ peer.reply # NoReply
       /\ peer.result = GetOrderResult(peer.args.order_num.s, peer.reply)
  /\ (pc = "done" /\ api_token) => request # NoRequest

\* The order was aggregated into the bucket of day key d: it is not excluded,
\* the statistics loop could read it through, and d is its purchase date
\* truncated to the day.
AggregatedOn(o, d) ==
  /\ ~HasExcludedStatus(o)
  /\ Readable(o) /\ o.items.k # "null"
  /\ TruncateDate(o.pur_date.s) = d

\* C19: in a report every key of daily_stats is the truncated purchase day
\* of a buffered order that lies in the window, is not excluded and was
\* aggregated, and the bucket counts exactly the orders aggregated on that
\* day, which is at least one.
C19_DailyKeys ==
  Reported =>
    \A d \in DOMAIN result.daily_stats :
      /\ result.daily_stats[d].orders >= 1
      /\ \E i \in 1..Len(all_orders) :
           AggregatedOn(all_orders[i], d) /\ InWindow(all_orders[i])
      /\ result.daily_stats[d].orders =
           Len(SelectSeq(all_orders, LAMBDA o : AggregatedOn(o, d)))

\* A report with the buckets of two days, over a feed that also holds an
\* excluded order of one of them.
C19_Witness ==
  /\ Reported
  /\ all_orders = <<OrderStorno, OrderString, OrderStart>>
  /\ DOMAIN result.daily_stats = {<<"2024-03-31">>, <<"2024-03-01">>}
  /\ result.daily_stats[<<"2024-03-31">>].orders = 1

\* C20: in a report of a call that passes from_date, excluded_orders is the
\* number of in-window orders of the scanned feed whose status display name
\* is in the exclusion set, and total_orders counts those orders too.
C20_AsStated ==
  (Reported /\ args.from_date.given) =>
    LET excluded == SelectSeq(SelectSeq(Scanned, InWindow), HasExcludedStatus)
    IN  /\ result.summary.excluded_orders = Len(excluded)
        /\ result.summary.total_orders >= Len(excluded)

\* ---------------------------------------------------------------------------
\* C22: the first page request of a call carries no cursor; a further page is
\* requested only when the page just received reports a next page, holds no
\* order older than the window start and leaves the fetched count at or under
\* the ceiling, and that request carries exactly the nextCursor of that page
\* (none when the page has none); the fallback request asks for the same page.
C22_Requests ==
  [][ /\ (pc = "idle" /\ pc' = "await") => request'.cursor = 0
      /\ (pc \in {"await", "await_fallback"} /\ pc' = "await" /\ pages' # <<>>) =>
            LET p == pages'[Len(pages')]
            IN  /\ p.hasNextPage
                /\ \A i \in 1..Len(p.data) : ~IsOlder(p.data[i])
                /\ total_fetched' <= FetchCeiling
                /\ request'.cursor = p.nextCursor
      /\ (pc = "await" /\ pc' = "await_fallback") => request'.cursor = request.cursor
    ]_vars

\* A second request is out, for the cursor the first page named.
C22_Witness ==
  /\ pc = "await"
  /\ pages # <<>>
  /\ pages[Len(pages)].nextCursor = MaxCursor
  /\ request.cursor = MaxCursor
  /\ total_fetched = FetchCeiling

\* The position of the first order of the feed older than the window start,
\* Len(Feed) + 1 when it has none.
FirstOlder ==
  IF \E i \in 1..Len(Feed) : IsOlder(Feed[i])
  THEN CHOOSE i \in 1..Len(Feed) : IsOlder(Feed[i]) /\ \A j \in 1..(i - 1) : ~IsOlder(Feed[j])
  ELSE Len(Feed) + 1

\* An order of the window follows, before any older order, an order dated
\* after the window end.
AfterNewer(j) ==
  /\ j < FirstOlder
  /\ InWindow(Feed[j])
  /\ \E i \in 1..(j - 1) : IsNewer(Feed[i])

\* ---------------------------------------------------------------------------
\* C23: an order dated after the window end is not in the buffer and does not
\* stop the scan: while no older order has come, the orders of the window that
\* follow it, on its page or on a later one, are in the buffer, and the report
\* counts them.
C23_NewerSkipped ==
  (pc \in {"await", "done"} /\ \E i \in 1..Len(Feed) : IsNewer(Feed[i])) =>
    /\ \A k \in 1..Len(all_orders) : ~IsNewer(all_orders[k])
    /\ \A j \in 1..Len(Feed) :
         AfterNewer(j) =>
           Len(SelectSeq(all_orders, LAMBDA o : o = Feed[j])) =
             Len(SelectSeq(SubSeq(Feed, 1, FirstOlder - 1), LAMBDA o : o = Feed[j]))
    /\ Reported =>
         result.summary.total_orders >=
           Cardinality({j \in 1..Len(Feed) : AfterNewer(j)})

\* A report over two pages: the order after the window end opens the first,
\* an order of the window follows it there and another on the second page.
C23_Witness ==
  /\ Reported
  /\ Len(pages) = 2
  /\ Feed = <<OrderNewer, OrderStorno, OrderStart>>
  /\ Len(pages[1].data) = 2
  /\ result.summary.total_orders = 2

\* The feed is not sorted: an order of the window comes after an order older
\* than the window start.
Unsorted == \E j \in 1..Len(Feed) : FirstOlder < j /\ InWindow(Feed[j])

\* ---------------------------------------------------------------------------
\* C24: when the feed is not sorted, the orders of the window that come after
\* the first order older than the window start are left out (the buffer and
\* total_orders hold the orders of the window before it only, and no page
\* after its page is requested), and the call returns a report, not an error.
C24_SilentTruncation ==
  (pc # "idle" /\ Unsorted) =>
    /\ pc = "done"
    /\ IsReport(result)
    /\ all_orders = SelectSeq(SubSeq(Feed, 1, FirstOlder - 1), InWindow)
    /\ result.summary.total_orders = Len(all_orders)
    /\ result.summary.total_orders < Len(SelectSeq(Feed, InWindow))
    /\ \A k \in 1..(Len(pages) - 1) :
         \A i \in 1..Len(pages[k].data) : ~IsOlder(pages[k].data[i])

\* A report over the one page older, in-window, in-window: nothing is counted.
C24_Witness ==
  /\ Reported
  /\ Feed = <<OrderOlder, OrderStart, OrderStart>>
  /\ result.summary.total_orders = 0
  /\ pages[1].hasNextPage

\* ---------------------------------------------------------------------------
\* C25: on the page that holds the first order older than the window start,
\* the orders of the window that precede it are kept, after those of the pages
\* before, and aggregated: the report counts them, and as valid unless their
\* status is excluded.
C25_PrefixKept ==
  (pc = "done" /\ IsReport(result) /\ FirstOlder <= Len(Feed)) =>
    LET last   == pages[Len(pages)].data
        before == Len(Feed) - Len(last)
        prefix == SelectSeq(SubSeq(last, 1, FirstOlder - before - 1), InWindow)
        buffer == SelectSeq(SubSeq(Feed, 1, before), InWindow) \o prefix
    IN  /\ FirstOlder > before
        /\ all_orders = buffer
        /\ result.summary.total_orders = Len(buffer)
        /\ result.summary.valid_orders =
             Len(SelectSeq(buffer, LAMBDA o : ~HasExcludedStatus(o)))

\* The second page is in-window, older: the order before the older one is
\* counted, with the (cancelled) order of the first page.
C25_Witness ==
  /\ Reported
  /\ Len(pages) = 2
  /\ pages[2].data = <<OrderStart, OrderOlder>>
  /\ pages[1].data = <<OrderStorno>>
  /\ result.summary.total_orders = 2
  /\ result.summary.valid_orders = 1

\* The monetary value of the order is a string that writes no number.
BadValue(o) == o.sum.k = "str" /\ o.sum.s \notin DOMAIN NumericStrings

\* The number of items of the orders of s.
RECURSIVE SumItems(_)
SumItems(s) ==
  IF s = <<>> THEN 0
  ELSE (IF s[1].items.k = "list" THEN s[1].items.n ELSE 0) + SumItems(Tail(s))

\* ---------------------------------------------------------------------------
\* C26: a buffered order that is not excluded and whose monetary value is a
\* string that writes no number counts as an order of value 0: it adds nothing
\* to total_revenue nor to the revenue of its day, and it is counted in
\* valid_orders, total_items, status_breakdown and the orders and items of
\* its day.
C26_BadValueIsZero ==
  LET valid == SelectSeq(all_orders, LAMBDA o : ~HasExcludedStatus(o))
      good  == SelectSeq(valid, LAMBDA o : ~BadValue(o))
  IN  (Reported /\ \E i \in 1..Len(valid) : BadValue(valid[i])) =>
        /\ result.summary.total_revenue = Round2(SumValues(good))
        /\ result.summary.valid_orders = Len(valid)
        /\ result.summary.total_items = SumItems(valid)
        /\ \A i \in 1..Len(valid) :
             LET o == valid[i]
                 d == TruncateDate(o.pur_date.s)
                 sameDay(x) == TruncateDate(x.pur_date.s) = d
             IN  /\ o.status.name \in DOMAIN result.status_breakdown
                 /\ result.status_breakdown[o.status.name] =
                      Len(SelectSeq(valid, LAMBDA x : x.status.name = o.status.name))
                 /\ d \in DOMAIN result.daily_stats
                 /\ result.daily_stats[d].orders = Len(SelectSeq(valid, sameDay))
                 /\ result.daily_stats[d].items = SumItems(SelectSeq(valid, sameDay))
                 /\ result.daily_stats[d].revenue = SumValues(SelectSeq(good, sameDay))

\* A report over an order of value '12,50' with 4 items and an order of value
\* 19.99 with 2 items, both of 2024-03-01.
C26_Witness ==
  /\ Reported
  /\ all_orders = <<OrderBadValue, OrderStart>>
  /\ result.summary.total_revenue = 19990
  /\ result.summary.valid_orders = 2
  /\ result.summary.total_items = 6
  /\ result.status_breakdown["Nova"] = 1
  /\ result.daily_stats[<<"2024-03-01">>] = [orders |-> 2, revenue |-> 19990, items |-> 6]

\* The sum of the numbers d[k] over the keys k of keys.
RECURSIVE SumOver(_, _)
SumOver(d, keys) ==
  IF keys = {} THEN 0
  ELSE LET k == CHOOSE x \in keys : TRUE
       IN  d[k] + SumOver(d, keys \ {k})

\* ---------------------------------------------------------------------------
\* C27: in every report the counts of status_breakdown add up to valid_orders,
\* whatever the records hold, those whose processing fails part-way included.
C27_AsStated ==
  Reported =>
    SumOver(result.status_breakdown, DOMAIN result.status_breakdown)
      = result.summary.valid_orders

\* ---------------------------------------------------------------------------
\* C28: in every report the orders counts of the daily buckets add up to
\* valid_orders and their items counts to total_items, whatever the records
\* hold.
C28_AsStated ==
  Reported =>
    LET days == DOMAIN result.daily_stats
    IN  /\ SumOver([d \in days |-> result.daily_stats[d].orders], days)
             = result.summary.valid_orders
        /\ SumOver([d \in days |-> result.daily_stats[d].items], days)
             = result.summary.total_items

\* ---------------------------------------------------------------------------
\* C29: within a call of order_statistics a request is sent only in the step
\* that starts the call, when none is out, or in the step that ends the
\* request that was out: its page comes in (the log of pages grows by that
\* page) or it fails (and the request sent is the fallback for the same
\* page). So one request of the call at most is out at any time.
C29_Sequential ==
  [][ (request' # request /\ pc' # "idle") =>
        \/ pc = "idle" /\ request = NoRequest /\ pc' \in {"await", "done"}
        \/ /\ pc \in {"await", "await_fallback"}
           /\ pc' = "await"
           /\ Len(pages') = Len(pages) + 1
        \/ /\ pc = "await"
           /\ pc' = "await_fallback"
           /\ pages' = pages
           /\ request'.cursor = request.cursor
    ]_vars

\* The fallback request for the second page is out: the first request
\* returned its page, the second failed.
C29_Witness ==
  /\ pc = "await_fallback"
  /\ Len(pages) = 1
  /\ request = PageRequest(1, from_date, TRUE)

\* A date argument was passed that is no YYYY-MM-DD date.
BadDateArgs ==
  \/ args.from_date.given /\ ~IsDateString(args.from_date.s)
  \/ args.to_date.given /\ ~IsDateString(args.to_date.s)

\* ---------------------------------------------------------------------------
\* C30: a call of order_statistics whose from_date or to_date is given and is
\* no YYYY-MM-DD date ends at once: no page request is sent and no page is
\* fetched, and, once past the dispatcher's client check, it returns the
\* error object, which the host receives as the one payload.
C30_BadDate ==
  (pc # "idle" /\ BadDateArgs) =>
    /\ pc = "done"
    /\ request = NoRequest
    /\ pages = <<>>
    /\ total_fetched = 0
    /\ client # "None" =>
         /\ result # NoResult
         /\ DOMAIN result = ErrorKeys
         /\ result.error = "Failed to fetch orders"
         /\ IsPayloadOf(payload, result)

\* A call with from_date '01.03.2024' has returned the error object.
C30_Witness ==
  /\ pc = "done"
  /\ args.from_date = Given(<<"01.03.2024">>)
  /\ client # "None"
  /\ IsError(result)
  /\ request = NoRequest

====
